---- MODULE Spec2Model ----
(***************************************************************************)
(* Model of subtitle-to-document/scripts/subtitle_to_text.py.              *)
(*                                                                         *)
(* A text is a sequence of characters.  An ASCII character is the string   *)
(* of length one that holds it; a character outside ASCII is named by its  *)
(* code point ("U4E2D" is one character).  Every function of the script is *)
(* an operator over such sequences, and every regular expression is        *)
(* written out as the left-to-right scan that re.sub / re.search perform.  *)
(*                                                                         *)
(* The script is a set of pure functions and one pipeline.  Each           *)
(* specification below draws the arguments of one entry point in its       *)
(* initial state and has one action that performs the call.                *)
(***************************************************************************)
EXTENDS Integers, Sequences, FiniteSets, TLC

VARIABLES
    pc,           \* "start" before the call, "done" after it
    sub_path,     \* the suffix of the input path (p.suffix), as written
    raw,          \* the content of the input file
    fmt,          \* the fmt argument
    lang,         \* the lang argument
    output_path,  \* the output_path argument ("none" when omitted)
    text,         \* the text argument of a function that takes one
    captions,     \* the captions argument of a function that takes one
    entry,        \* the function that was called ("none" before the call)
    ret,          \* the value returned by the call
    outfile       \* the content written to output_path ("none": not written)

vars == <<pc, sub_path, raw, fmt, lang, output_path, text, captions, entry, ret, outfile>>

(***************************************************************************)
(* Bounds.                                                                 *)
(***************************************************************************)
MaxSample == 10      \* length of a two-letter sample given to detect_language
MaxIndSample == 4    \* length of a sample that holds indicator characters
MaxPieces == 3       \* pieces of a file given to format resolution
MaxLines == 4        \* lines of a file given to the SRT parser
MaxCapLen == 1       \* length of a caption given to remove_duplicates
MaxCaps == 4         \* captions given to remove_duplicates
MaxMergeCaps == 3    \* captions given to merge_into_paragraphs
MaxCleanLen == 5     \* length of a text given to clean_spacing
MaxCues == 2         \* cues of a file given to the conversion

(***************************************************************************)
(* Generic helpers.                                                        *)
(***************************************************************************)
SeqsUpTo(S, n) == UNION {[1..k -> S] : k \in 0..n}

NoValue == "none"

\* s[a..b] as a sequence, empty when a > b (Python's s[a-1:b])
Slice(s, a, b) == IF a > b THEN <<>> ELSE SubSeq(s, a, b)

\* s[a:] in Python terms, with a one-based
From(s, a) == Slice(s, a, Len(s))

(***************************************************************************)
(* Character classes.                                                      *)
(***************************************************************************)
\* line 68
traditional_indicators ==
    {"U81FA", "U7063", "U7E41", "U9AD4", "U61C9", "U70BA", "U5011", "U500B", "U9019", "U8AAC"}

\* line 72
simplified_indicators ==
    {"U53F0", "U6E7E", "U7B80", "U4F53", "U5E94", "U4E3A", "U4EEC", "U4E2A", "U8FD9", "U8BF4"}

\* the other ideographs that texts of the model hold
OtherIdeographs ==
    {"U4E2D", "U597D", "U97F3", "U6A02", "U4E50", "U638C", "U8072", "U58F0",
     "U7B11", "U7121", "U65E0", "U6CD5", "U807D", "U542C", "U6E05"}

\* [U+4E00-U+9FFF]
IsCJK(c) == c \in traditional_indicators \cup simplified_indicators \cup OtherIdeographs

\* \s
SpaceChars == {" ", "\t", "\n", "\r"}

IsSpace(c) == c \in SpaceChars

\* [ \t]
HSpaceChars == {" ", "\t"}

IsHSpace(c) == c \in HSpaceChars

(***************************************************************************)
(* detect_language                                                         *)
(***************************************************************************)
\* line 65: len(re.findall(r'[U+4E00-U+9FFF]', text))
CountCJK(s) == Cardinality({i \in DOMAIN s : IsCJK(s[i])})

\* lines 69 and 73: sum(1 for char in indicators if char in text)
IndicatorCount(indicators, s) ==
    Cardinality({c \in indicators : \E i \in DOMAIN s : s[i] = c})

IsChineseHeavy_ge(s) == 10 * CountCJK(s) >= 3 * Len(s)

\* line 75: simplified_chars > len(text) * 0.3.  For every length below 2^53
\* the double len(text) * 0.3 compares with an integer as 3 * len / 10 does.
IsChineseHeavy(s) == 10 * CountCJK(s) > 3 * Len(s)

ChineseVariant_ties_tw(s) ==
    IF IndicatorCount(traditional_indicators, s) >= IndicatorCount(simplified_indicators, s)
    THEN "zh_tw" ELSE "zh_cn"

\* lines 76-79
ChineseVariant(s) ==
    IF IndicatorCount(traditional_indicators, s) > IndicatorCount(simplified_indicators, s)
    THEN "zh_tw" ELSE "zh_cn"

\* lines 56-81
detect_language(s) ==
    IF s = <<>> THEN "en"
    ELSE IF IsChineseHeavy(s) THEN ChineseVariant(s)
    ELSE "en"

(***************************************************************************)
(* Specification of a call of detect_language.                             *)
(***************************************************************************)
DetectSamples ==
    SeqsUpTo({"a", "U4E2D"}, MaxSample)
    \cup SeqsUpTo({"a", "U4E2D", "U9019", "U500B", "U4E2A", "U4EEC"}, MaxIndSample)

InitDetect ==
    /\ pc = "start"
    /\ text \in DetectSamples
    /\ sub_path = NoValue /\ raw = <<>> /\ fmt = NoValue /\ lang = NoValue
    /\ output_path = NoValue /\ captions = <<>>
    /\ entry = NoValue /\ ret = NoValue /\ outfile = NoValue

CallDetectLanguage ==
    /\ pc = "start"
    /\ entry' = "detect_language"
    /\ ret' = detect_language(text)
    /\ pc' = "done"
    /\ UNCHANGED <<sub_path, raw, fmt, lang, output_path, text, captions, outfile>>

NextDetect == CallDetectLanguage

SpecDetect == InitDetect /\ [][NextDetect]_vars

\* occurrences of the characters of a set in s, each position counted
Occurrences(S, s) == Cardinality({i \in DOMAIN s : s[i] \in S})

\* C2: detect_language returns one of en, zh_tw, zh_cn; it returns a Chinese
\* code exactly when 10 * (number of ideographs) > 3 * (sample length), and
\* en otherwise, also for the empty sample and at exactly 30%.
C2_DetectThreshold ==
    pc = "done" =>
        /\ ret \in {"en", "zh_tw", "zh_cn"}
        /\ (ret \in {"zh_tw", "zh_cn"}) <=> (10 * CountCJK(text) > 3 * Len(text))
        /\ (text = <<>> => ret = "en")

\* a sample of ten characters, three of them ideographs, was classified
C2_Witness ==
    /\ pc = "done"
    /\ Len(text) = 10
    /\ CountCJK(text) = 3
    /\ ret = "en"

\* C3 as stated: for a Chinese sample the result is zh_tw exactly when the
\* occurrences of Traditional indicators outnumber those of Simplified ones.
C3_ByOccurrences ==
    (pc = "done" /\ ret \in {"zh_tw", "zh_cn"}) =>
        ((ret = "zh_tw") <=>
            (Occurrences(traditional_indicators, text) > Occurrences(simplified_indicators, text)))

\* C3 amended: for a Chinese sample the result is zh_tw exactly when more of
\* the ten Traditional indicators than of the ten Simplified indicators are
\* present in the sample (each indicator counted once), zh_cn otherwise.
C3_ByDistinctIndicators ==
    (pc = "done" /\ ret \in {"zh_tw", "zh_cn"}) =>
        LET t == Cardinality(traditional_indicators \cap {text[i] : i \in DOMAIN text})
            s == Cardinality(simplified_indicators \cap {text[i] : i \in DOMAIN text})
        IN  (ret = "zh_tw") <=> (t > s)

\* a Chinese sample with one Traditional and one Simplified indicator (a tie)
C3_Witness ==
    /\ pc = "done"
    /\ ret = "zh_cn"
    /\ \E i, j \in DOMAIN text :
          text[i] \in traditional_indicators /\ text[j] \in simplified_indicators

(***************************************************************************)
(* String helpers (str methods of Python).                                 *)
(***************************************************************************)
LowerAlpha == <<"a", "b", "c", "d", "e", "f", "g", "h", "i", "j", "k", "l", "m",
                "n", "o", "p", "q", "r", "s", "t", "u", "v", "w", "x", "y", "z">>

UpperAlpha == <<"A", "B", "C", "D", "E", "F", "G", "H", "I", "J", "K", "L", "M",
                "N", "O", "P", "Q", "R", "S", "T", "U", "V", "W", "X", "Y", "Z">>

\* [a-z]
IsLowerLetter(c) == \E k \in 1..26 : LowerAlpha[k] = c

\* [A-Z]
IsUpperLetter(c) == \E k \in 1..26 : UpperAlpha[k] = c

\* [A-Za-z]
IsLetter(c) == IsLowerLetter(c) \/ IsUpperLetter(c)

\* \d
IsDigit(c) == c \in {"0", "1", "2", "3", "4", "5", "6", "7", "8", "9"}

\* \w
IsWord(c) == IsLetter(c) \/ IsDigit(c) \/ c = "_" \/ IsCJK(c)

\* str.lower() of one character
LowerChar(c) ==
    IF IsUpperLetter(c) THEN LowerAlpha[CHOOSE k \in 1..26 : UpperAlpha[k] = c] ELSE c

\* str.upper() of one character
UpperChar(c) ==
    IF IsLowerLetter(c) THEN UpperAlpha[CHOOSE k \in 1..26 : LowerAlpha[k] = c] ELSE c

\* str.lower()
Lower(s) == [i \in DOMAIN s |-> LowerChar(s[i])]

\* all of s[a..b] is whitespace (true of an empty range)
AllSpace(s, a, b) == \A i \in a..b : IsSpace(s[i])

\* str.lstrip()
LStrip(s) ==
    IF AllSpace(s, 1, Len(s)) THEN <<>>
    ELSE From(s, CHOOSE i \in DOMAIN s : ~IsSpace(s[i]) /\ AllSpace(s, 1, i - 1))

\* str.strip()
Strip(s) ==
    IF AllSpace(s, 1, Len(s)) THEN <<>>
    ELSE LET a == CHOOSE i \in DOMAIN s : ~IsSpace(s[i]) /\ AllSpace(s, 1, i - 1)
             b == CHOOSE i \in DOMAIN s : ~IsSpace(s[i]) /\ AllSpace(s, i + 1, Len(s))
         IN  Slice(s, a, b)

\* s[p:].startswith(w), p one-based
StartsWithAt(s, p, w) ==
    /\ p + Len(w) - 1 <= Len(s)
    /\ \A k \in 1..Len(w) : s[p + k - 1] = w[k]

\* s.startswith(w)
StartsWith(s, w) == StartsWithAt(s, 1, w)

\* w in s
Contains(s, w) == \E p \in 1..(Len(s) + 1) : StartsWithAt(s, p, w)

RECURSIVE Join(_, _)
\* sep.join(parts)
Join(parts, sep) ==
    IF parts = <<>> THEN <<>>
    ELSE IF Len(parts) = 1 THEN parts[1]
    ELSE parts[1] \o sep \o Join(Tail(parts), sep)

RECURSIVE SplitOn(_, _)
\* s.split(c) for a single character c
SplitOn(s, c) ==
    IF \A i \in DOMAIN s : s[i] # c THEN <<s>>
    ELSE LET p == CHOOSE i \in DOMAIN s : s[i] = c /\ \A j \in 1..(i - 1) : s[j] # c
         IN  <<Slice(s, 1, p - 1)>> \o SplitOn(From(s, p + 1), c)

RECURSIVE ReSub(_, _, _, _)
\* re.sub over s from position p: ends[q] is the last position of the match
\* that starts at q (0: no match starts there), repl[q] its replacement.
\* Matches are taken leftmost first and do not overlap.
ReSub(s, p, ends, repl) ==
    IF p > Len(s) THEN <<>>
    ELSE IF ends[p] # 0 THEN repl[p] \o ReSub(s, ends[p] + 1, ends, repl)
    ELSE <<s[p]>> \o ReSub(s, p + 1, ends, repl)

\* the position of the first c in s after position p, 0 when there is none
FirstAfter(s, p, c) ==
    IF \E q \in (p + 1)..Len(s) : s[q] = c
    THEN CHOOSE q \in (p + 1)..Len(s) : s[q] = c /\ \A j \in (p + 1)..(q - 1) : s[j] # c
    ELSE 0

\* the last position of the longest run of characters of the class S that
\* starts at position p (p - 1 when s[p] is not in S): a greedy S* at p
RunEnd(s, p, S) ==
    CHOOSE r \in (p - 1)..Len(s) :
        /\ \A j \in p..r : s[j] \in S
        /\ (r < Len(s) => s[r + 1] \notin S)

(***************************************************************************)
(* remove_subtitle_formatting                                              *)
(***************************************************************************)
\* line 86: <v\s+[^>]*>
VoiceTagEnd(s, p) ==
    IF /\ p + 2 <= Len(s)
       /\ s[p] = "<" /\ s[p + 1] = "v" /\ IsSpace(s[p + 2])
    THEN FirstAfter(s, p + 2, ">")
    ELSE 0

\* line 87: </?[^>]+>
AnyTagEnd(s, p) ==
    IF s[p] = "<" /\ FirstAfter(s, p, ">") > p + 1
    THEN FirstAfter(s, p, ">")
    ELSE 0

\* lines 84-88
remove_subtitle_formatting(s) ==
    LET t == ReSub(s, 1, [p \in DOMAIN s |-> VoiceTagEnd(s, p)], [p \in DOMAIN s |-> <<>>])
    IN  ReSub(t, 1, [p \in DOMAIN t |-> AnyTagEnd(t, p)], [p \in DOMAIN t |-> <<>>])

(***************************************************************************)
(* parse_subtitle_file                                                     *)
(***************************************************************************)
WEBVTT == <<"W", "E", "B", "V", "T", "T">>
NOTE == <<"N", "O", "T", "E">>
Arrow == <<"-", "-", ">">>

RECURSIVE Normalize(_)
\* line 107: raw.replace('\r\n', '\n').replace('\r', '\n')
Normalize(s) ==
    IF s = <<>> THEN <<>>
    ELSE IF Head(s) = "\r"
         THEN IF Len(s) >= 2 /\ s[2] = "\n"
              THEN <<"\n">> \o Normalize(From(s, 3))
              ELSE <<"\n">> \o Normalize(Tail(s))
         ELSE <<Head(s)>> \o Normalize(Tail(s))

\* the last position of the match of \n\s*\n+ that starts at p (0: none):
\* the last newline of the whitespace run that follows p
BlockSepEnd(s, p) ==
    IF s[p] # "\n" THEN 0
    ELSE LET r == RunEnd(s, p + 1, SpaceChars)
         IN  IF \E q \in (p + 1)..r : s[q] = "\n"
             THEN CHOOSE q \in (p + 1)..r : s[q] = "\n" /\ \A j \in (q + 1)..r : s[j] # "\n"
             ELSE 0

RECURSIVE SplitBlocksFrom(_, _, _)
SplitBlocksFrom(s, start, p) ==
    IF p > Len(s) THEN <<Slice(s, start, Len(s))>>
    ELSE IF BlockSepEnd(s, p) # 0
         THEN <<Slice(s, start, p - 1)>>
              \o SplitBlocksFrom(s, BlockSepEnd(s, p) + 1, BlockSepEnd(s, p) + 1)
         ELSE SplitBlocksFrom(s, start, p + 1)

\* line 108: re.split(r'\n\s*\n+', normalized)
SplitBlocks(s) == SplitBlocksFrom(s, 1, 1)

IsNonBlank(ln) == Strip(ln) # <<>>

\* lines 125 and 143: [ln for ln in block.split('\n') if ln.strip()]
BlockLines(block) == SelectSeq(SplitOn(block, "\n"), IsNonBlank)

\* str.lower() of the suffix
SuffixLower(ext) ==
    CASE ext = ".VTT" -> ".vtt"
      [] ext = ".SRT" -> ".srt"
      [] OTHER -> ext

ResolveFormat_ext_first(ext, normalized, f) ==
    IF f # "auto" THEN f
    ELSE IF SuffixLower(ext) = ".vtt" THEN "vtt"
    ELSE IF SuffixLower(ext) = ".srt" \/ Contains(normalized, Arrow) THEN "srt"
    ELSE "vtt"

\* lines 110-118
ResolveFormat(ext, normalized, f) ==
    IF f # "auto" THEN f
    ELSE IF SuffixLower(ext) = ".vtt" \/ StartsWith(LStrip(normalized), WEBVTT) THEN "vtt"
    ELSE IF SuffixLower(ext) = ".srt" \/ Contains(normalized, Arrow) THEN "srt"
    ELSE "vtt"

\* \d{1,2}:\d{2}:\d{2}[.,]\d{3} at position p with k leading digits
TimestampAt(s, p, k) ==
    /\ p + k + 9 <= Len(s)
    /\ \A j \in p..(p + k - 1) : IsDigit(s[j])
    /\ s[p + k] = ":"
    /\ IsDigit(s[p + k + 1]) /\ IsDigit(s[p + k + 2])
    /\ s[p + k + 3] = ":"
    /\ IsDigit(s[p + k + 4]) /\ IsDigit(s[p + k + 5])
    /\ s[p + k + 6] \in {".", ","}
    /\ IsDigit(s[p + k + 7]) /\ IsDigit(s[p + k + 8]) /\ IsDigit(s[p + k + 9])

\* lines 123 and 132: timestamp_re.search(line)
TimestampSearch(ln) ==
    \E p \in DOMAIN ln : \E k \in {1, 2} :
        /\ TimestampAt(ln, p, k)
        /\ \E a \in (p + k + 10)..Len(ln) :
              /\ AllSpace(ln, p + k + 10, a - 1)
              /\ StartsWithAt(ln, a, Arrow)
              /\ \E b \in (a + 3)..Len(ln) :
                    /\ AllSpace(ln, a + 3, b - 1)
                    /\ \E k2 \in {1, 2} : TimestampAt(ln, b, k2)

\* lines 131-134 and 147-150: the lines after the first line i for which
\* timing[i] holds
LinesAfterFirst(lines, timing) ==
    IF \E i \in DOMAIN lines : timing[i]
    THEN From(lines, 1 + CHOOSE i \in DOMAIN lines :
                        timing[i] /\ \A j \in 1..(i - 1) : ~timing[j])
    ELSE <<>>

\* lines 135-139 and 153-157: the captions (none or one) of a block
CaptionOf(caption_text) ==
    IF caption_text = <<>> THEN <<>>
    ELSE LET t == remove_subtitle_formatting(Join(caption_text, <<" ">>))
         IN  IF Strip(t) # <<>> THEN <<Strip(t)>> ELSE <<>>

\* lines 125-134
VttCaptionText(block) ==
    LET lines == BlockLines(block)
    IN  IF lines = <<>> THEN <<>>
        ELSE IF StartsWith(lines[1], WEBVTT) \/ StartsWith(lines[1], NOTE) THEN <<>>
        ELSE LinesAfterFirst(lines, [i \in DOMAIN lines |-> TimestampSearch(lines[i])])

HasArrow(ln) == Contains(ln, Arrow)

SrtCaptionText_from_timing(block) ==
    LET lines == BlockLines(block)
    IN  IF \E i \in DOMAIN lines : HasArrow(lines[i])
        THEN From(lines, CHOOSE i \in DOMAIN lines :
                            HasArrow(lines[i]) /\ \A j \in 1..(i - 1) : ~HasArrow(lines[j]))
        ELSE <<>>

\* lines 143-152
SrtCaptionText(block) ==
    LET lines == BlockLines(block)
        found == LinesAfterFirst(lines, [i \in DOMAIN lines |-> HasArrow(lines[i])])
    IN  IF lines = <<>> THEN <<>>
        ELSE IF found = <<>> /\ Len(lines) >= 2 /\ HasArrow(lines[2])
             THEN From(lines, 3)
             ELSE found

RECURSIVE CaptionsOfBlocks(_, _)
\* lines 124-139 and 142-157: the loop over the blocks
CaptionsOfBlocks(blocks, detected) ==
    IF blocks = <<>> THEN <<>>
    ELSE (CASE detected = "vtt" -> CaptionOf(VttCaptionText(Head(blocks)))
            [] detected = "srt" -> CaptionOf(SrtCaptionText(Head(blocks)))
            [] OTHER -> <<>>)
         \o CaptionsOfBlocks(Tail(blocks), detected)

\* lines 99-159; the result (captions, detected) as a record
parse_subtitle_file(ext, content, f) ==
    LET normalized == Normalize(content)
        detected == ResolveFormat(ext, normalized, f)
    IN  [captions |-> CaptionsOfBlocks(SplitBlocks(normalized), detected),
         detected |-> detected]

RECURSIVE Concat(_)
\* the concatenation of a sequence of texts
Concat(parts) == IF parts = <<>> THEN <<>> ELSE Head(parts) \o Concat(Tail(parts))

(***************************************************************************)
(* Specification of a call of parse_subtitle_file with fmt = 'auto'.       *)
(***************************************************************************)
FormatPieces == {WEBVTT, Arrow, <<" ">>, <<"\n">>, <<"a">>}

FormatContents == {Concat(ps) : ps \in SeqsUpTo(FormatPieces, MaxPieces)}

Suffixes == {".vtt", ".VTT", ".srt", ".txt", ""}

InitFormat ==
    /\ pc = "start"
    /\ sub_path \in Suffixes
    /\ raw \in FormatContents
    /\ fmt = "auto"
    /\ lang = NoValue /\ output_path = NoValue /\ text = <<>> /\ captions = <<>>
    /\ entry = NoValue /\ ret = NoValue /\ outfile = NoValue

CallParseSubtitleFile ==
    /\ pc = "start"
    /\ entry' = "parse_subtitle_file"
    /\ ret' = parse_subtitle_file(sub_path, raw, fmt)
    /\ pc' = "done"
    /\ UNCHANGED <<sub_path, raw, fmt, lang, output_path, text, captions, outfile>>

NextFormat == CallParseSubtitleFile

SpecFormat == InitFormat /\ [][NextFormat]_vars

\* C1 as stated: with fmt = 'auto', whatever the extension, content that
\* starts with "WEBVTT" resolves to vtt, content that does not but contains
\* "-->" resolves to srt, and content with neither resolves to vtt.
C1_ContentDecides ==
    (pc = "done" /\ fmt = "auto") =>
        /\ (StartsWith(raw, WEBVTT) => ret.detected = "vtt")
        /\ (~StartsWith(raw, WEBVTT) /\ Contains(raw, Arrow) => ret.detected = "srt")
        /\ (~StartsWith(raw, WEBVTT) /\ ~Contains(raw, Arrow) => ret.detected = "vtt")

\* the first non-whitespace characters of s are "WEBVTT"
HasLeadingHeader(s) ==
    \E p \in DOMAIN s : AllSpace(s, 1, p - 1) /\ StartsWithAt(s, p, WEBVTT)

\* C1 amended: with fmt = 'auto' a file resolves to vtt when its extension is
\* .vtt or its content, leading whitespace skipped, starts with "WEBVTT"
\* (also under a .srt extension); otherwise to srt when its extension is .srt
\* or its content contains "-->"; otherwise to vtt.
C1_ExtensionThenContent ==
    (pc = "done" /\ fmt = "auto") =>
        LET isVtt == sub_path \in {".vtt", ".VTT"}
            isSrt == sub_path \in {".srt", ".SRT"}
        IN  /\ (isVtt \/ HasLeadingHeader(raw)) => ret.detected = "vtt"
            /\ (~isVtt /\ ~HasLeadingHeader(raw) /\ (isSrt \/ Contains(raw, Arrow)))
                  => ret.detected = "srt"
            /\ (~isVtt /\ ~HasLeadingHeader(raw) /\ ~isSrt /\ ~Contains(raw, Arrow))
                  => ret.detected = "vtt"

\* a .srt file whose content starts with "WEBVTT" was resolved to vtt
C1_Witness ==
    /\ pc = "done"
    /\ fmt = "auto"
    /\ sub_path = ".srt"
    /\ StartsWith(raw, WEBVTT)
    /\ Contains(raw, Arrow)
    /\ ret.detected = "vtt"

(***************************************************************************)
(* Specification of a call of parse_subtitle_file with fmt = 'srt'.        *)
(***************************************************************************)
SrtLinePool ==
    {<<>>, <<" ">>, <<"1">>, Arrow, <<"a">>, <<" ", "b">>, <<"<", "i", ">">>}

SrtContents == {Join(ls, <<"\n">>) : ls \in SeqsUpTo(SrtLinePool, MaxLines)}

InitSrt ==
    /\ pc = "start"
    /\ sub_path = ".srt"
    /\ raw \in SrtContents
    /\ fmt = "srt"
    /\ lang = NoValue /\ output_path = NoValue /\ text = <<>> /\ captions = <<>>
    /\ entry = NoValue /\ ret = NoValue /\ outfile = NoValue

NextSrt == CallParseSubtitleFile

SpecSrt == InitSrt /\ [][NextSrt]_vars

\* the non-blank lines of a block
NonBlankLines(block) ==
    LET ls == SplitOn(block, "\n")
    IN  SelectSeq(ls, LAMBDA ln : \E i \in DOMAIN ln : ~IsSpace(ln[i]))

\* the lines of ls that follow its first line containing "-->"
AfterFirstArrow(ls) ==
    IF \E i \in DOMAIN ls : Contains(ls[i], Arrow)
    THEN LET i == CHOOSE i \in DOMAIN ls :
                    Contains(ls[i], Arrow) /\ \A j \in 1..(i - 1) : ~Contains(ls[j], Arrow)
         IN  [k \in 1..(Len(ls) - i) |-> ls[i + k]]
    ELSE <<>>

RECURSIVE ExpectedSrtCaptions(_)
ExpectedSrtCaptions(blocks) ==
    IF blocks = <<>> THEN <<>>
    ELSE LET after == AfterFirstArrow(NonBlankLines(Head(blocks)))
             t == Strip(remove_subtitle_formatting(Join(after, <<" ">>)))
         IN  (IF t = <<>> THEN <<>> ELSE <<t>>) \o ExpectedSrtCaptions(Tail(blocks))

\* C9: in SRT parsing the caption of a block is the non-blank lines that
\* follow its first line containing "-->", joined by single spaces (tags
\* stripped and the result trimmed), with or without an index line; a block
\* with no "-->" line or nothing after it gives no caption; the fallback for
\* the second line never changes the captions.
C9_SrtCaptions ==
    (pc = "done" /\ ret.detected = "srt") =>
        /\ ret.captions = ExpectedSrtCaptions(SplitBlocks(Normalize(raw)))
        /\ \A k \in DOMAIN SplitBlocks(Normalize(raw)) :
              LET ls == NonBlankLines(SplitBlocks(Normalize(raw))[k])
              IN  /\ SrtCaptionText(SplitBlocks(Normalize(raw))[k]) = AfterFirstArrow(ls)
                  /\ (AfterFirstArrow(ls) = <<>> =>
                        CaptionOf(SrtCaptionText(SplitBlocks(Normalize(raw))[k])) = <<>>)

\* a block with an index line, a "-->" line and two text lines gave one caption
C9_Witness ==
    /\ pc = "done"
    /\ ret.detected = "srt"
    /\ raw = Join(<<<<"1">>, Arrow, <<"a">>, <<" ", "b">>>>, <<"\n">>)
    /\ ret.captions = << <<"a", " ", " ", "b">> >>

(***************************************************************************)
(* LANGUAGE_CONFIGS                                                        *)
(***************************************************************************)
EnglishWords ==
    {<<"m", "u", "s", "i", "c">>, <<"a", "p", "p", "l", "a", "u", "s", "e">>,
     <<"l", "a", "u", "g", "h", "t", "e", "r">>,
     <<"i", "n", "a", "u", "d", "i", "b", "l", "e">>}

TraditionalWords ==
    {<<"U97F3", "U6A02">>, <<"U638C", "U8072">>, <<"U7B11", "U8072">>,
     <<"U7121", "U6CD5", "U807D", "U6E05">>}

SimplifiedWords ==
    {<<"U97F3", "U4E50">>, <<"U638C", "U58F0">>, <<"U7B11", "U58F0">>,
     <<"U65E0", "U6CD5", "U542C", "U6E05">>}

\* \[(?:w1|w2|...|.*?)\]: the last alternative accepts whatever the others do
BracketPattern == [kind |-> "bracket", words |-> {}]

\* \((?:w1|w2|...)\)
ParenPattern(words) == [kind |-> "paren", words |-> words]

\* lines 23-53; sentence_end holds the characters of the class that starts
\* the pattern [...][\s]*$
LANGUAGE_CONFIGS ==
    [en |-> [sentence_end |-> {".", "!", "?"},
             annotations |-> <<BracketPattern, ParenPattern(EnglishWords)>>,
             fix_capitalization |-> TRUE,
             space_join |-> <<" ">>],
     zh_tw |-> [sentence_end |-> {"U3002", "UFF01", "UFF1F"},
                annotations |-> <<BracketPattern, ParenPattern(TraditionalWords), BracketPattern>>,
                fix_capitalization |-> FALSE,
                space_join |-> <<>>],
     zh_cn |-> [sentence_end |-> {"U3002", "UFF01", "UFF1F"},
                annotations |-> <<BracketPattern, ParenPattern(SimplifiedWords), BracketPattern>>,
                fix_capitalization |-> FALSE,
                space_join |-> <<>>]]

\* LANGUAGE_CONFIGS.get(lang, LANGUAGE_CONFIGS['en'])
ConfigOf(l) ==
    IF l \in DOMAIN LANGUAGE_CONFIGS THEN LANGUAGE_CONFIGS[l] ELSE LANGUAGE_CONFIGS["en"]

(***************************************************************************)
(* remove_annotations                                                      *)
(***************************************************************************)
\* the last position of the match of an annotation pattern at p (0: none),
\* under re.IGNORECASE
AnnotationEnd(s, p, pat) ==
    IF pat.kind = "bracket"
    THEN IF /\ s[p] = "["
            /\ FirstAfter(s, p, "]") # 0
            /\ \A j \in (p + 1)..(FirstAfter(s, p, "]") - 1) : s[j] # "\n"
         THEN FirstAfter(s, p, "]")
         ELSE 0
    ELSE IF s[p] = "(" /\ \E w \in pat.words :
                            /\ StartsWithAt(Lower(s), p + 1, w)
                            /\ StartsWithAt(s, p + 1 + Len(w), <<")">>)
         THEN LET w == CHOOSE w \in pat.words :
                            /\ StartsWithAt(Lower(s), p + 1, w)
                            /\ StartsWithAt(s, p + 1 + Len(w), <<")">>)
              IN  p + 1 + Len(w)
         ELSE 0

RECURSIVE ApplyAnnotationPatterns(_, _)
\* lines 94-95
ApplyAnnotationPatterns(s, pats) ==
    IF pats = <<>> THEN s
    ELSE ApplyAnnotationPatterns(
             ReSub(s, 1, [p \in DOMAIN s |-> AnnotationEnd(s, p, Head(pats))],
                         [p \in DOMAIN s |-> <<>>]),
             Tail(pats))

\* lines 91-96
remove_annotations(s, l) == ApplyAnnotationPatterns(s, ConfigOf(l).annotations)

(***************************************************************************)
(* remove_duplicates                                                       *)
(***************************************************************************)
KeepCaption_exact(caption, cleaned) == caption # cleaned[Len(cleaned)]

\* line 168
KeepCaption(caption, cleaned) == Lower(caption) # Lower(cleaned[Len(cleaned)])

RECURSIVE DedupFrom(_, _, _)
\* lines 167-169
DedupFrom(caps, i, cleaned) ==
    IF i > Len(caps) THEN cleaned
    ELSE DedupFrom(caps, i + 1,
                   IF KeepCaption(caps[i], cleaned) THEN Append(cleaned, caps[i]) ELSE cleaned)

\* lines 162-170
remove_duplicates(caps) ==
    IF caps = <<>> THEN caps ELSE DedupFrom(caps, 2, <<caps[1]>>)

(***************************************************************************)
(* merge_into_paragraphs                                                   *)
(***************************************************************************)
SentenceEndSearch_anywhere(cap, terminators) ==
    \E p \in DOMAIN cap : cap[p] \in terminators

\* line 186: sentence_end.search(cap) for the pattern [terminators][\s]*$
SentenceEndSearch(cap, terminators) ==
    \E p \in DOMAIN cap : cap[p] \in terminators /\ AllSpace(cap, p + 1, Len(cap))

RECURSIVE MergeFrom(_, _, _, _)
\* lines 184-190
MergeFrom(caps, i, current, terminators) ==
    IF i > Len(caps)
    THEN IF current # <<>> THEN <<Join(current, <<"\n">>)>> ELSE <<>>
    ELSE IF SentenceEndSearch(caps[i], terminators)
         THEN <<Join(Append(current, caps[i]), <<"\n">>)>>
              \o MergeFrom(caps, i + 1, <<>>, terminators)
         ELSE MergeFrom(caps, i + 1, Append(current, caps[i]), terminators)

\* lines 173-191
merge_into_paragraphs(caps, l) ==
    IF caps = <<>> THEN <<>>
    ELSE MergeFrom(caps, 1, <<>>, ConfigOf(l).sentence_end)

(***************************************************************************)
(* fix_capitalization                                                      *)
(***************************************************************************)
\* line 201: ([.!?]\s+)([a-z])
SentenceStartEnd(s, p) ==
    IF /\ s[p] \in {".", "!", "?"}
       /\ p + 1 <= Len(s) /\ IsSpace(s[p + 1])
       /\ RunEnd(s, p + 1, SpaceChars) + 1 <= Len(s)
       /\ IsLowerLetter(s[RunEnd(s, p + 1, SpaceChars) + 1])
    THEN RunEnd(s, p + 1, SpaceChars) + 1
    ELSE 0

\* \b before position p
BoundaryBefore(s, p) == p = 1 \/ ~IsWord(s[p - 1])

\* \b after position p
BoundaryAfter(s, p) == p = Len(s) \/ ~IsWord(s[p + 1])

\* line 202: \bi\b
LoneIEnd(s, p) ==
    IF s[p] = "i" /\ BoundaryBefore(s, p) /\ BoundaryAfter(s, p) THEN p ELSE 0

\* line 203: \bi\'
IApostropheEnd(s, p) ==
    IF s[p] = "i" /\ BoundaryBefore(s, p) /\ StartsWithAt(s, p + 1, <<"'">>) THEN p + 1 ELSE 0

\* lines 194-204
fix_capitalization(s, l) ==
    IF ~ConfigOf(l).fix_capitalization THEN s
    ELSE LET t1 == IF s # <<>> /\ IsLowerLetter(s[1])
                   THEN <<UpperChar(s[1])>> \o Tail(s) ELSE s
             t2 == ReSub(t1, 1, [p \in DOMAIN t1 |-> SentenceStartEnd(t1, p)],
                         [p \in DOMAIN t1 |->
                            Slice(t1, p, SentenceStartEnd(t1, p) - 1)
                            \o <<UpperChar(t1[SentenceStartEnd(t1, p)])>>])
             t3 == ReSub(t2, 1, [p \in DOMAIN t2 |-> LoneIEnd(t2, p)],
                         [p \in DOMAIN t2 |-> <<"I">>])
         IN  ReSub(t3, 1, [p \in DOMAIN t3 |-> IApostropheEnd(t3, p)],
                   [p \in DOMAIN t3 |-> <<"I", "'">>])

(***************************************************************************)
(* clean_spacing                                                           *)
(***************************************************************************)
FullWidthPunct == {"UFF0C", "U3002", "UFF01", "UFF1F", "U3001", "UFF1B", "UFF1A"}
AsciiPunct == {",", ".", "!", "?", ";", ":"}

IsLineBreak(c) == c \in {"\n", "\r"}

RECURSIVE SplitLines(_)
\* str.splitlines()
SplitLines(s) ==
    IF s = <<>> THEN <<>>
    ELSE IF \A i \in DOMAIN s : ~IsLineBreak(s[i]) THEN <<s>>
    ELSE LET p == CHOOSE i \in DOMAIN s :
                      IsLineBreak(s[i]) /\ \A j \in 1..(i - 1) : ~IsLineBreak(s[j])
             n == IF s[p] = "\r" /\ p < Len(s) /\ s[p + 1] = "\n" THEN p + 2 ELSE p + 1
         IN  <<Slice(s, 1, p - 1)>> \o SplitLines(From(s, n))

\* line 216: ([U+4E00-U+9FFF])\s+([U+4E00-U+9FFF])
IdeographGapEnd(s, p) ==
    IF /\ IsCJK(s[p])
       /\ p + 1 <= Len(s) /\ IsSpace(s[p + 1])
       /\ RunEnd(s, p + 1, SpaceChars) + 1 <= Len(s)
       /\ IsCJK(s[RunEnd(s, p + 1, SpaceChars) + 1])
    THEN RunEnd(s, p + 1, SpaceChars) + 1
    ELSE 0

\* lines 217 and 220: [ \t]{n,}
HSpaceRunEnd(s, p, n) ==
    IF IsHSpace(s[p]) /\ RunEnd(s, p, HSpaceChars) >= p + n - 1
    THEN RunEnd(s, p, HSpaceChars) ELSE 0

\* lines 218 and 221: [ \t]+([punct])
HSpaceBeforeEnd(s, p, punct) ==
    IF /\ IsHSpace(s[p])
       /\ RunEnd(s, p, HSpaceChars) + 1 <= Len(s)
       /\ s[RunEnd(s, p, HSpaceChars) + 1] \in punct
    THEN RunEnd(s, p, HSpaceChars) + 1
    ELSE 0

\* line 222: ([,.!?;:])([A-Za-z])
PunctLetterEnd(s, p) ==
    IF s[p] \in AsciiPunct /\ p + 1 <= Len(s) /\ IsLetter(s[p + 1]) THEN p + 1 ELSE 0

\* lines 216-218
CleanChineseLine(line) ==
    LET l1 == ReSub(line, 1, [p \in DOMAIN line |-> IdeographGapEnd(line, p)],
                    [p \in DOMAIN line |-> <<line[p], line[IdeographGapEnd(line, p)]>>])
        l2 == ReSub(l1, 1, [p \in DOMAIN l1 |-> HSpaceRunEnd(l1, p, 2)],
                    [p \in DOMAIN l1 |-> <<" ">>])
    IN  ReSub(l2, 1, [p \in DOMAIN l2 |-> HSpaceBeforeEnd(l2, p, FullWidthPunct)],
              [p \in DOMAIN l2 |-> <<l2[HSpaceBeforeEnd(l2, p, FullWidthPunct)]>>])

\* lines 220-222
CleanOtherLine(line) ==
    LET l1 == ReSub(line, 1, [p \in DOMAIN line |-> HSpaceRunEnd(line, p, 1)],
                    [p \in DOMAIN line |-> <<" ">>])
        l2 == ReSub(l1, 1, [p \in DOMAIN l1 |-> HSpaceBeforeEnd(l1, p, AsciiPunct)],
                    [p \in DOMAIN l1 |-> <<l1[HSpaceBeforeEnd(l1, p, AsciiPunct)]>>])
    IN  ReSub(l2, 1, [p \in DOMAIN l2 |-> PunctLetterEnd(l2, p)],
              [p \in DOMAIN l2 |-> <<l2[p], " ", l2[PunctLetterEnd(l2, p)]>>])

\* lines 212-223
CleanLine(line, l) ==
    IF Strip(line) = <<>> THEN <<>>
    ELSE IF l \in {"zh_tw", "zh_cn"} THEN Strip(CleanChineseLine(line))
    ELSE Strip(CleanOtherLine(line))

\* lines 207-224
clean_spacing(s, l) ==
    LET lines == SplitLines(s)
    IN  Strip(Join([k \in DOMAIN lines |-> CleanLine(lines[k], l)], <<"\n">>))

(***************************************************************************)
(* convert_subtitles_to_text and convert_vtt_to_text                       *)
(***************************************************************************)
\* lines 241-243
ResolveLanguage(caps, l) ==
    IF l = "auto"
    THEN detect_language(Join(Slice(caps, 1, IF Len(caps) < 10 THEN Len(caps) ELSE 10), <<" ">>))
    ELSE l

\* lines 254-258: fix_capitalization before clean_spacing
FinishParagraph(para, l) == clean_spacing(fix_capitalization(para, l), l)

\* lines 239-260
convert_subtitles_to_text(ext, content, l, f) ==
    LET parsed == parse_subtitle_file(ext, content, f).captions
        rl == ResolveLanguage(parsed, l)
        stripped == [k \in DOMAIN parsed |-> Strip(remove_annotations(parsed[k], rl))]
        caps == remove_duplicates(SelectSeq(stripped, LAMBDA c : c # <<>>))
        paragraphs == merge_into_paragraphs(caps, rl)
        finished == [k \in DOMAIN paragraphs |-> FinishParagraph(paragraphs[k], rl)]
    IN  Join(SelectSeq(finished, LAMBDA q : q # <<>>), <<"\n", "\n">>)

convert_vtt_to_text_auto(ext, content, l) == convert_subtitles_to_text(ext, content, l, "auto")

\* lines 271-272
convert_vtt_to_text(ext, content, l) == convert_subtitles_to_text(ext, content, l, "vtt")

(***************************************************************************)
(* Specification of a call of remove_duplicates.                           *)
(***************************************************************************)
DedupCaptions == SeqsUpTo({"a", "A", "b"}, MaxCapLen) \ {<<>>}

InitDedup ==
    /\ pc = "start"
    /\ captions \in SeqsUpTo(DedupCaptions, MaxCaps)
    /\ sub_path = NoValue /\ raw = <<>> /\ fmt = NoValue /\ lang = NoValue
    /\ output_path = NoValue /\ text = <<>>
    /\ entry = NoValue /\ ret = NoValue /\ outfile = NoValue

CallRemoveDuplicates ==
    /\ pc = "start"
    /\ entry' = "remove_duplicates"
    /\ ret' = remove_duplicates(captions)
    /\ pc' = "done"
    /\ UNCHANGED <<sub_path, raw, fmt, lang, output_path, text, captions, outfile>>

NextDedup == CallRemoveDuplicates

SpecDedup == InitDedup /\ [][NextDedup]_vars

\* two captions are equal up to the case of their letters
SameIgnoringCase(x, y) ==
    /\ Len(x) = Len(y)
    /\ \A i \in DOMAIN x : LowerChar(x[i]) = LowerChar(y[i])

RECURSIVE PickIndices(_, _, _)
\* the elements of xs at the indices of K that are >= i, in order
PickIndices(xs, K, i) ==
    IF i > Len(xs) THEN <<>>
    ELSE (IF i \in K THEN <<xs[i]>> ELSE <<>>) \o PickIndices(xs, K, i + 1)

\* K is the set of retained indices: the first caption, and every caption
\* that differs, case ignored, from the retained caption nearest before it
IsRetainedSet(xs, K) ==
    /\ (xs # <<>> => 1 \in K)
    /\ \A i \in DOMAIN xs : i > 1 =>
          LET last == CHOOSE j \in K : j < i /\ \A m \in K : m < i => m <= j
          IN  (i \in K) <=> ~SameIgnoringCase(xs[i], xs[last])

\* C4: remove_duplicates drops a caption exactly when it equals, case
\* ignored, the last retained caption; the result is an order-preserving
\* subsequence that starts with the first caption and has no two adjacent
\* captions equal up to case; non-adjacent repeats stay.
C4_ChainedDedup ==
    pc = "done" =>
        /\ \E K \in SUBSET (DOMAIN captions) :
              IsRetainedSet(captions, K) /\ ret = PickIndices(captions, K, 1)
        /\ (captions # <<>> => ret # <<>> /\ ret[1] = captions[1])
        /\ \A i \in 1..(Len(ret) - 1) : ~SameIgnoringCase(ret[i], ret[i + 1])
        /\ (\A i \in 1..(Len(captions) - 1) : ~SameIgnoringCase(captions[i], captions[i + 1]))
              => ret = captions

\* A, a, B, A was reduced to A, B, A
C4_Witness ==
    /\ pc = "done"
    /\ captions = << <<"A">>, <<"a">>, <<"b">>, <<"A">> >>
    /\ ret = << <<"A">>, <<"b">>, <<"A">> >>

(***************************************************************************)
(* Specification of a call of merge_into_paragraphs.                       *)
(***************************************************************************)
MergeCaptionPool ==
    {<<"a">>, <<"a", ".">>, <<".", "a">>, <<"a", "?", " ">>, <<"a", "U3002">>, <<"U4E2D">>}

LangOptions == {"en", "zh_tw", "zh_cn", "xx"}

InitMerge ==
    /\ pc = "start"
    /\ captions \in SeqsUpTo(MergeCaptionPool, MaxMergeCaps)
    /\ lang \in LangOptions
    /\ sub_path = NoValue /\ raw = <<>> /\ fmt = NoValue
    /\ output_path = NoValue /\ text = <<>>
    /\ entry = NoValue /\ ret = NoValue /\ outfile = NoValue

CallMergeIntoParagraphs ==
    /\ pc = "start"
    /\ entry' = "merge_into_paragraphs"
    /\ ret' = merge_into_paragraphs(captions, lang)
    /\ pc' = "done"
    /\ UNCHANGED <<sub_path, raw, fmt, lang, output_path, text, captions, outfile>>

NextMerge == CallMergeIntoParagraphs

SpecMerge == InitMerge /\ [][NextMerge]_vars

\* the last character of cap that is not whitespace is a sentence
\* terminator of language l
EndsSentence(cap, l) ==
    \E p \in DOMAIN cap :
        /\ cap[p] \in (IF l \in {"zh_tw", "zh_cn"} THEN {"U3002", "UFF01", "UFF1F"}
                       ELSE {".", "!", "?"})
        /\ \A j \in (p + 1)..Len(cap) : IsSpace(cap[j])

\* the captions of the paragraphs of the result
ParagraphCaptions == [k \in DOMAIN ret |-> SplitOn(ret[k], "\n")]

\* C5: merge_into_paragraphs partitions the caption sequence: the captions
\* of the paragraphs, concatenated in order, are the input; every paragraph
\* but possibly the last ends with a terminator caption, no earlier caption
\* of a paragraph matches the terminator, and the leftover captions form the
\* last paragraph.
C5_ParagraphPartition ==
    pc = "done" =>
        /\ Concat(ParagraphCaptions) = captions
        /\ \A k \in DOMAIN ret :
              LET caps == ParagraphCaptions[k]
              IN  /\ caps # <<>>
                  /\ \A j \in 1..(Len(caps) - 1) : ~EndsSentence(caps[j], lang)
                  /\ (k < Len(ret) => EndsSentence(caps[Len(caps)], lang))

\* two paragraphs, the first of two captions, the last one left open
C5_Witness ==
    /\ pc = "done"
    /\ Len(ret) = 2
    /\ Len(ParagraphCaptions[1]) = 2
    /\ ~EndsSentence(captions[Len(captions)], lang)

(***************************************************************************)
(* Specification of a call of clean_spacing.                               *)
(***************************************************************************)
CleanAlphabet == {"U4E2D", " ", "UFF0C", "a", ",", "\n"}

InitClean ==
    /\ pc = "start"
    /\ text \in SeqsUpTo(CleanAlphabet, MaxCleanLen)
    /\ lang \in {"zh_tw", "zh_cn", "en"}
    /\ sub_path = NoValue /\ raw = <<>> /\ fmt = NoValue
    /\ output_path = NoValue /\ captions = <<>>
    /\ entry = NoValue /\ ret = NoValue /\ outfile = NoValue

CallCleanSpacing ==
    /\ pc = "start"
    /\ entry' = "clean_spacing"
    /\ ret' = clean_spacing(text, lang)
    /\ pc' = "done"
    /\ UNCHANGED <<sub_path, raw, fmt, lang, output_path, text, captions, outfile>>

NextClean == CallCleanSpacing

SpecClean == InitClean /\ [][NextClean]_vars

\* s has a run of whitespace with an ideograph directly on both sides
HasIdeographGap(s) ==
    \E p, q \in DOMAIN s :
        /\ p + 1 < q
        /\ IsCJK(s[p]) /\ IsCJK(s[q])
        /\ \A j \in (p + 1)..(q - 1) : IsSpace(s[j])

\* C8: for lang zh_tw or zh_cn no line of the result of clean_spacing has a
\* run of whitespace with an ideograph directly on both sides.
C8_NoIdeographGap ==
    (pc = "done" /\ lang \in {"zh_tw", "zh_cn"}) =>
        \A k \in DOMAIN SplitOn(ret, "\n") : ~HasIdeographGap(SplitOn(ret, "\n")[k])

(***************************************************************************)
(* Specification of a conversion through either entry point.               *)
(***************************************************************************)
Stamp == <<"0", ":", "0", "0", ":", "0", "0", ".", "0", "0", "0">>

\* a timing line that both parsers accept
StrictTiming == Stamp \o <<" ">> \o Arrow \o <<" ">> \o Stamp

\* a timing line that only the SRT parser accepts
LooseTiming == <<"0">> \o Arrow \o <<"1">>

CuePool ==
    {StrictTiming \o <<"\n", "a", ".", "b">>,
     <<"1", "\n">> \o StrictTiming \o <<"\n", "i", "\n", "a", "?">>,
     LooseTiming \o <<"\n", "A", ".", "b">>,
     StrictTiming \o <<"\n", "U9019", " ", "U4E2D", "U3002">>,
     <<"1", "\n">> \o LooseTiming \o <<"\n", "<", "i", ">", "[", "x", "]", "b">>}

FileContents ==
    {h \o Join(cues, <<"\n", "\n">>) :
        h \in {<<>>, WEBVTT \o <<"\n", "\n">>}, cues \in SeqsUpTo(CuePool, MaxCues)}

KnownLangs == {"auto", "en", "zh_tw", "zh_cn"}
KnownFormats == {"auto", "vtt", "srt"}

InitConvert ==
    /\ pc = "start"
    /\ sub_path \in {".vtt", ".srt"}
    /\ raw \in FileContents
    /\ fmt \in KnownFormats \cup {"xx"}
    /\ lang \in KnownLangs \cup {"xx"}
    /\ output_path \in {NoValue, "out.txt"}
    /\ text = <<>> /\ captions = <<>>
    /\ entry = NoValue /\ ret = NoValue /\ outfile = NoValue

\* lines 227-267
CallConvertSubtitlesToText ==
    /\ pc = "start"
    /\ entry' = "convert_subtitles_to_text"
    /\ ret' = convert_subtitles_to_text(sub_path, raw, lang, fmt)
    /\ outfile' = IF output_path # NoValue THEN ret' ELSE NoValue
    /\ pc' = "done"
    /\ UNCHANGED <<sub_path, raw, fmt, lang, output_path, text, captions>>

\* lines 271-272
CallConvertVttToText ==
    /\ pc = "start"
    /\ entry' = "convert_vtt_to_text"
    /\ ret' = convert_vtt_to_text(sub_path, raw, lang)
    /\ outfile' = IF output_path # NoValue THEN ret' ELSE NoValue
    /\ pc' = "done"
    /\ UNCHANGED <<sub_path, raw, fmt, lang, output_path, text, captions>>

NextConvert == CallConvertSubtitlesToText \/ CallConvertVttToText

SpecConvert == InitConvert /\ [][NextConvert]_vars

\* C6: the alias convert_vtt_to_text returns, and writes, what
\* convert_subtitles_to_text does with fmt = 'vtt', whatever the extension,
\* the content and the language option.
C6_AliasForcesVtt ==
    (pc = "done" /\ entry = "convert_vtt_to_text") =>
        /\ ret = convert_subtitles_to_text(sub_path, raw, lang, "vtt")
        /\ outfile = (IF output_path # NoValue
                      THEN convert_subtitles_to_text(sub_path, raw, lang, "vtt")
                      ELSE NoValue)

\* the alias was called on a .srt file that format detection reads otherwise
C6_Witness ==
    /\ pc = "done"
    /\ entry = "convert_vtt_to_text"
    /\ sub_path = ".srt"
    /\ ret # convert_subtitles_to_text(sub_path, raw, lang, "auto")

\* C7: an unrecognized language option is processed as English and an
\* unrecognized format option is parsed as VTT.
C7_UnknownOptionsFallBack ==
    (pc = "done" /\ entry = "convert_subtitles_to_text"
                 /\ (lang \notin KnownLangs \/ fmt \notin KnownFormats)) =>
        ret = convert_subtitles_to_text(sub_path, raw,
                                        IF lang \in KnownLangs THEN lang ELSE "en",
                                        IF fmt \in KnownFormats THEN fmt ELSE "vtt")

\* C10: in the text returned for English every letter that directly follows
\* '.', '!' or '?' plus whitespace is uppercase.
C10_SentenceStartsUppercase ==
    (pc = "done" /\ entry = "convert_subtitles_to_text" /\ lang = "en") =>
        \A p, q \in DOMAIN ret :
            (/\ p + 1 < q
             /\ ret[p] \in {".", "!", "?"}
             /\ \A j \in (p + 1)..(q - 1) : IsSpace(ret[j])
             /\ IsLetter(ret[q]))
            => IsUpperLetter(ret[q])

====
